---------------------------- MODULE Spec2Model ----------------------------
(***************************************************************************)
(* Model of S3ImageNetDataset (src/app/train.py): the discovery pass that  *)
(* builds the shard catalog, the cumulative size table and the class       *)
(* vocabulary, and the per-sample lookup __getitem__ with its two nested   *)
(* retry loops.  Storage (S3) is the environment: every head_object and    *)
(* get_object call may succeed or raise ClientError.                       *)
(***************************************************************************)
EXTENDS Integers, Sequences, FiniteSets

(* ------------------------------ bounds -------------------------------- *)
\* most objects under the storage prefix
MaxShards == 2
\* most records in the first batch of a shard
MaxRows == 2
(* ------------------------- program constants -------------------------- *)
\* max_retries=3 and retry_delay=1: the constructor's defaults, which both
\* datasets of the training script are built with
max_retries == 3
retry_delay == 1

\* raw label values found in the shards (not dense, not starting at 0)
RawLabels == {2, 5}

(* ------------------------- storage contents --------------------------- *)
\* An object under the prefix.  ext: whether its key ends with ".arrow".
\* opens: whether pa.ipc.open_stream accepts its body.  batches: the record
\* batches of the stream, each the sequence of its records' raw labels.
\* has_label / has_image: whether the schema has the column.  image_ok:
\* whether the image bytes decode (and the transform accepts the image).
Obj(e, o, b, hl, hi, io) ==
    [ext |-> e, opens |-> o, batches |-> b,
     has_label |-> hl, has_image |-> hi, image_ok |-> io]

MinLabel == CHOOSE l \in RawLabels : \A m \in RawLabels : l <= m
MaxLabel == CHOOSE l \in RawLabels : \A m \in RawLabels : l >= m

\* first batches of 1..MaxRows records: all of one label, or the largest
\* label first and the smallest after it (labels out of order)
FirstBatches ==
    {[i \in 1..n |-> l] : n \in 1..MaxRows, l \in RawLabels}
    \cup {[i \in 1..n |-> IF i = 1 THEN MaxLabel ELSE MinLabel] : n \in 2..MaxRows}

Objects ==
    \* not a shard: the key does not end with ".arrow"
    {Obj(FALSE, FALSE, << >>, FALSE, FALSE, FALSE)}
    \* a shard whose body is no Arrow stream
    \cup {Obj(TRUE, FALSE, << >>, FALSE, FALSE, FALSE)}
    \* a shard whose stream holds no batch
    \cup {Obj(TRUE, TRUE, << >>, TRUE, TRUE, TRUE)}
    \* a shard whose first batch holds no record
    \cup {Obj(TRUE, TRUE, << << >> >>, TRUE, TRUE, TRUE)}
    \* well-formed shards of one batch
    \cup {Obj(TRUE, TRUE, <<b>>, TRUE, TRUE, TRUE) : b \in FirstBatches}
    \* a well-formed shard with a second batch, whose label the first lacks
    \cup {Obj(TRUE, TRUE, << <<MinLabel>>, <<MaxLabel>> >>, TRUE, TRUE, TRUE)}
    \* shards with one defect: no label column, no image column, bad image
    \cup {Obj(TRUE, TRUE, << <<MinLabel>> >>, FALSE, TRUE, TRUE)}
    \cup {Obj(TRUE, TRUE, << <<MinLabel>> >>, TRUE, FALSE, TRUE)}
    \cup {Obj(TRUE, TRUE, << <<MinLabel>> >>, TRUE, TRUE, FALSE)}

RECURSIVE Buckets(_)
Buckets(n) ==
    IF n = 0 THEN {<< >>}
    ELSE Buckets(n - 1) \cup
         {Append(s, o) : s \in {t \in Buckets(n - 1) : Len(t) = n - 1},
                         o \in Objects}

(* ------------------------------- state -------------------------------- *)
VARIABLES
    bucket,            \* storage: the objects under the prefix, key = position
    pc,                \* where the program is
    arrow_files,       \* self.arrow_files: the catalog (keys)
    file_sizes,        \* self.file_sizes
    cumulative_sizes,  \* self.cumulative_sizes
    total_samples,     \* discover_structure's total_samples
    all_labels,        \* discover_structure's all_labels
    class_to_idx,      \* self.class_to_idx
    pos,               \* position of the discovery loop in arrow_files
    succeeded,         \* history: keys of the shards discovery read, in order
    idx,               \* __getitem__'s idx
    file_idx,          \* __getitem__'s file_idx (0-based, as in the code)
    local_idx,         \* __getitem__'s local_idx
    attempt,           \* __getitem__'s loop variable
    get_attempt,       \* get_object_with_retry's loop variable
    head_calls,        \* history: head_object calls of this lookup
    head_fails,        \* history: those that raised
    get_calls,         \* history: get_object calls of this lookup
    get_oks,           \* history: those that returned a response
    slept,             \* history: time slept since the last get_object call
    gap,               \* history: time slept between the last two get_object calls
    last_key,          \* history: key of the last head_object / get_object call
    last_err,          \* the exception last raised inside the lookup
    ret_label,         \* the label __getitem__ returned
    checkpoint,        \* upload script: the checkpoint object
    u_pc,              \* upload script: where it is
    u_err              \* upload script: the exception that ended it

index == <<arrow_files, file_sizes, cumulative_sizes, total_samples,
           all_labels, class_to_idx, pos, succeeded>>
lookup == <<idx, file_idx, local_idx, attempt, get_attempt, head_calls,
            head_fails, get_calls, get_oks, slept, gap, last_key, last_err,
            ret_label>>
upload == <<checkpoint, u_pc, u_err>>
vars == <<bucket, pc, index, lookup, upload>>

NoLookup ==
    /\ idx = 0 /\ file_idx = 0 /\ local_idx = 0
    /\ attempt = 0 /\ get_attempt = 0
    /\ head_calls = 0 /\ head_fails = 0 /\ get_calls = 0 /\ get_oks = 0
    /\ slept = 0 /\ gap = 0 /\ last_key = 0
    /\ last_err = "none" /\ ret_label = 0

\* no checkpoint object
NoCheckpoint == [is_dict |-> FALSE, keys |-> {}, fits |-> FALSE]

\* the upload script is not running
NoUpload == checkpoint = NoCheckpoint /\ u_pc = "off" /\ u_err = "none"

\* __init__ up to the call of discover_structure
Init ==
    /\ bucket \in Buckets(MaxShards)
    /\ pc = "list"
    /\ arrow_files = << >>
    /\ file_sizes = << >>
    /\ cumulative_sizes = << >>
    /\ total_samples = 0
    /\ all_labels = {}
    /\ class_to_idx = << >>
    /\ pos = 0
    /\ succeeded = << >>
    /\ NoLookup
    /\ NoUpload

(* ----------------------------- discovery ------------------------------ *)
\* the keys of the bucket that end with ".arrow", in listing order
RECURSIVE ArrowKeys(_, _)
ArrowKeys(b, k) ==
    IF k > Len(b) THEN << >>
    ELSE IF b[k].ext THEN <<k>> \o ArrowKeys(b, k + 1)
    ELSE ArrowKeys(b, k + 1)

\* the listing succeeds: arrow_files, file_sizes = [], cumulative_sizes = [0]
ListObjects ==
    /\ pc = "list"
    /\ arrow_files' = ArrowKeys(bucket, 1)
    /\ file_sizes' = << >>
    /\ cumulative_sizes' = <<0>>
    /\ total_samples' = 0
    /\ all_labels' = {}
    /\ pos' = 1
    /\ pc' = "discover"
    /\ UNCHANGED <<upload, bucket, class_to_idx, succeeded, lookup>>

\* the listing raises: discover_structure logs and re-raises
ListFails ==
    /\ pc = "list"
    /\ pc' = "failed"
    /\ last_err' = "listing"
    /\ UNCHANGED <<upload, bucket, index, idx, file_idx, local_idx,
                   attempt, get_attempt, head_calls, head_fails, get_calls,
                   get_oks, slept, gap, last_key, ret_label>>

\* the distinct labels of a batch
BatchLabels(batch) == {batch[i] : i \in 1..Len(batch)}

\* whether the body of one loop iteration runs to its end for this object
\* when neither storage call raises
Readable(o) == o.opens /\ Len(o.batches) >= 1

\* (mutant) the shard's own count in place of the running total
RunningTotalReset(total, num_records) == num_records

\* total_samples += num_records
RunningTotal(total, num_records) == total + num_records

\* one iteration of the loop over arrow_files in which head_object,
\* get_object, open_stream and next(stream) all succeed
DiscoverShard ==
    /\ pc = "discover"
    /\ pos <= Len(arrow_files)
    /\ Readable(bucket[arrow_files[pos]])
    /\ LET o == bucket[arrow_files[pos]]
           batch == o.batches[1]
           num_records == Len(batch)
       IN  /\ all_labels' = IF o.has_label
                            THEN all_labels \cup BatchLabels(batch)
                            ELSE all_labels
           /\ file_sizes' = Append(file_sizes, num_records)
           /\ total_samples' = RunningTotal(total_samples, num_records)
           /\ cumulative_sizes' =
                  Append(cumulative_sizes,
                         RunningTotal(total_samples, num_records))
    /\ succeeded' = Append(succeeded, arrow_files[pos])
    /\ pos' = pos + 1
    /\ UNCHANGED <<upload, bucket, pc, arrow_files, class_to_idx, lookup>>

\* one iteration in which something raises (a storage call, open_stream on a
\* corrupt body, next(stream) on an empty stream): logged, shard skipped
SkipShard ==
    /\ pc = "discover"
    /\ pos <= Len(arrow_files)
    /\ pos' = pos + 1
    /\ UNCHANGED <<upload, bucket, pc, arrow_files, file_sizes,
                   cumulative_sizes, total_samples, all_labels, class_to_idx,
                   succeeded, lookup>>

\* (mutant) the labels in descending order
RECURSIVE SortedDescending(_)
SortedDescending(S) ==
    IF S = {} THEN << >>
    ELSE LET m == CHOOSE x \in S : \A y \in S : x >= y
         IN  <<m>> \o SortedDescending(S \ {m})

\* sorted(all_labels)
RECURSIVE Sorted(_)
Sorted(S) ==
    IF S = {} THEN << >>
    ELSE LET m == CHOOSE x \in S : \A y \in S : x <= y
         IN  <<m>> \o Sorted(S \ {m})

\* {label: idx for idx, label in enumerate(sorted(all_labels))}
ClassToIdx(S) ==
    LET s == Sorted(S)
    IN  [label \in S |-> (CHOOSE i \in 1..Len(s) : s[i] = label) - 1]

\* (mutant) the check for an empty label set left out
NoLabelsUnchecked(labels) == FALSE

\* if not all_labels
NoLabels(labels) == labels = {}

\* if not self.file_sizes
NoFiles(sizes) == sizes = << >>

\* after the loop: the two emptiness checks, then the label mapping
FinishDiscovery ==
    /\ pc = "discover"
    /\ pos > Len(arrow_files)
    /\ IF NoLabels(all_labels)
       THEN /\ pc' = "failed"
            /\ last_err' = "no_labels"
            /\ UNCHANGED class_to_idx
       ELSE IF NoFiles(file_sizes)
       THEN /\ pc' = "failed"
            /\ last_err' = "no_files"
            /\ UNCHANGED class_to_idx
       ELSE /\ pc' = "ready"
            /\ class_to_idx' = ClassToIdx(all_labels)
            /\ UNCHANGED last_err
    /\ UNCHANGED <<upload, bucket, arrow_files, file_sizes,
                   cumulative_sizes, total_samples, all_labels, pos, succeeded,
                   idx, file_idx, local_idx, attempt, get_attempt, head_calls,
                   head_fails, get_calls, get_oks, slept, gap, last_key,
                   ret_label>>

\* __len__
DatasetLen == cumulative_sizes[Len(cumulative_sizes)]

\* the indices a constructed dataset is asked for: 0 .. len(dataset) - 1
Indices ==
    IF pc \in {"ready", "returned", "raised"} THEN 0..(DatasetLen - 1) ELSE {}

(* ------------------------------- lookup ------------------------------- *)
\* (mutant) the comparison idx <= size in place of idx < size
LocateOffByOne(cum, k) ==
    (CHOOSE i \in 1..(Len(cum) - 1) :
        /\ k <= cum[i + 1]
        /\ \A j \in 1..(i - 1) : ~(k <= cum[j + 1])) - 1

\* next(i for i, size in enumerate(self.cumulative_sizes[1:], 1)
\*      if idx < size) - 1
Locate(cum, k) ==
    (CHOOSE i \in 1..(Len(cum) - 1) :
        /\ k < cum[i + 1]
        /\ \A j \in 1..(i - 1) : ~(k < cum[j + 1])) - 1

\* self.arrow_files[file_idx]
ShardKey == arrow_files[file_idx + 1]

\* __getitem__(k) up to the retry loop, for an index of the dataset; the
\* dataset serves one lookup after the other
GetItem(k) ==
    /\ pc \in {"ready", "returned", "raised"}
    /\ idx' = k
    /\ file_idx' = Locate(cumulative_sizes, k)
    /\ local_idx' = k - cumulative_sizes[Locate(cumulative_sizes, k) + 1]
    /\ attempt' = 0
    /\ get_attempt' = 0
    /\ head_calls' = 0 /\ head_fails' = 0 /\ get_calls' = 0 /\ get_oks' = 0
    /\ slept' = 0 /\ gap' = 0 /\ last_key' = 0
    /\ last_err' = "none"
    /\ ret_label' = 0
    /\ pc' = "verify"
    /\ UNCHANGED <<upload, bucket, index>>

\* the except clause of __getitem__'s loop: re-raise on the last attempt,
\* else sleep retry_delay * (attempt + 1) and go round again
\* (since: the time slept since the last get_object call)
\* (mutant) the last attempt taken to be the one after it
HandleOneMore(err, since) ==
    /\ last_err' = err
    /\ IF attempt = max_retries
       THEN /\ pc' = "raised"
            /\ slept' = since
            /\ UNCHANGED attempt
       ELSE /\ pc' = "verify"
            /\ attempt' = attempt + 1
            /\ slept' = since + retry_delay * (attempt + 1)

Handle(err, since) ==
    /\ last_err' = err
    /\ IF attempt = max_retries - 1
       THEN /\ pc' = "raised"
            /\ slept' = since
            /\ UNCHANGED attempt
       ELSE /\ pc' = "verify"
            /\ attempt' = attempt + 1
            /\ slept' = since + retry_delay * (attempt + 1)

\* verify_arrow_file: head_object answers
VerifyOk ==
    /\ pc = "verify"
    /\ head_calls' = head_calls + 1
    /\ last_key' = ShardKey
    /\ get_attempt' = 0
    /\ pc' = "get"
    /\ UNCHANGED <<upload, bucket, index, idx, file_idx, local_idx,
                   attempt, head_fails, get_calls, get_oks, slept, gap,
                   last_err, ret_label>>

\* verify_arrow_file: head_object raises ClientError, it returns False and
\* __getitem__ raises ValueError("... is corrupted") into its own handler
VerifyFails ==
    /\ pc = "verify"
    /\ head_calls' = head_calls + 1
    /\ head_fails' = head_fails + 1
    /\ last_key' = ShardKey
    /\ Handle("corrupted", slept)
    /\ UNCHANGED <<upload, bucket, index, idx, file_idx, local_idx,
                   get_attempt, get_calls, get_oks, gap, ret_label>>

\* get_object_with_retry: get_object returns the response
GetObjectOk ==
    /\ pc = "get"
    /\ get_calls' = get_calls + 1
    /\ get_oks' = get_oks + 1
    /\ last_key' = ShardKey
    /\ gap' = slept
    /\ slept' = 0
    /\ pc' = "read"
    /\ UNCHANGED <<upload, bucket, index, idx, file_idx, local_idx,
                   attempt, get_attempt, head_calls, head_fails, last_err,
                   ret_label>>

\* (mutant) giving up one attempt early
LastGetAttemptEarly(a) == a = max_retries - 2

\* whether get_object_with_retry gives up after a failure of this attempt
LastGetAttempt(a) == a = max_retries - 1

\* get_object_with_retry: get_object raises ClientError; on the last attempt
\* the error is re-raised into __getitem__'s handler, else the loop sleeps
\* retry_delay * (attempt + 1) and tries again
GetObjectFails ==
    /\ pc = "get"
    /\ get_calls' = get_calls + 1
    /\ last_key' = ShardKey
    /\ gap' = slept
    /\ IF LastGetAttempt(get_attempt)
       THEN /\ Handle("client", 0)
            /\ UNCHANGED get_attempt
       ELSE /\ get_attempt' = get_attempt + 1
            /\ slept' = retry_delay * (get_attempt + 1)
            /\ last_err' = "client"
            /\ UNCHANGED <<pc, attempt>>
    /\ UNCHANGED <<upload, bucket, index, idx, file_idx, local_idx,
                   head_calls, head_fails, get_oks, ret_label>>

\* the scan of the stream's batches for the one that holds local_idx:
\* <<batch number, record_idx>>, or <<0, 0>> when the stream ends first
RECURSIVE Scan(_, _, _, _)
Scan(batches, b, current_idx, l) ==
    IF b > Len(batches) THEN <<0, 0>>
    ELSE IF current_idx + Len(batches[b]) > l THEN <<b, l - current_idx>>
    ELSE Scan(batches, b + 1, current_idx + Len(batches[b]), l)

\* what reading the fetched body gives: the error raised, or "none" and the
\* label of the record
ReadRecord(o, l) ==
    IF ~o.opens THEN [err |-> "stream", label |-> 0]
    ELSE LET at == Scan(o.batches, 1, 0, l)
         IN  IF at[1] = 0 THEN [err |-> "not_found", label |-> 0]
             ELSE IF ~o.has_image \/ ~o.has_label
                  THEN [err |-> "structure", label |-> 0]
             ELSE IF ~o.image_ok THEN [err |-> "image", label |-> 0]
             ELSE [err |-> "none", label |-> o.batches[at[1]][at[2] + 1]]

\* the label __getitem__ hands back for the raw label of the record
Label(raw) == raw

\* the body of the try block after the fetch: return the sample, or raise
\* into the handler
ReadSample ==
    /\ pc = "read"
    /\ LET r == ReadRecord(bucket[ShardKey], local_idx)
       IN  IF r.err = "none"
           THEN /\ pc' = "returned"
                /\ ret_label' = Label(r.label)
                /\ UNCHANGED <<attempt, slept, last_err>>
           ELSE /\ Handle(r.err, slept)
                /\ UNCHANGED ret_label
    /\ UNCHANGED <<upload, bucket, index, idx, file_idx, local_idx,
                   get_attempt, head_calls, head_fails, get_calls, get_oks,
                   gap, last_key>>

Next ==
    \/ ListObjects
    \/ ListFails
    \/ DiscoverShard
    \/ SkipShard
    \/ FinishDiscovery
    \/ \E k \in Indices : GetItem(k)
    \/ VerifyOk
    \/ VerifyFails
    \/ GetObjectOk
    \/ GetObjectFails
    \/ ReadSample

Spec == Init /\ [][Next]_vars

(* --------------------------- upload script ---------------------------- *)
\* the top-level keys a checkpoint file may hold: the three keys the loader
\* looks for, the two metadata keys, and a parameter name of the model (the
\* key of a bare state dict)
WeightKeys == {"model_state_dict", "model", "state_dict"}
ParamKey == "conv1.weight"
CheckpointKeys == WeightKeys \cup {"epoch", "best_acc", ParamKey}

\* what torch.load may give: a dict with some of the keys (fits: whether the
\* tensors of the state dict taken from it are those of ResNet-50), or an
\* object that is no dict
Checkpoints ==
    [is_dict : {TRUE}, keys : SUBSET CheckpointKeys, fits : BOOLEAN]
    \cup {NoCheckpoint}

\* main() of the upload script, before anything is loaded
InitUpload ==
    /\ bucket = << >>
    /\ pc = "off"
    /\ arrow_files = << >>
    /\ file_sizes = << >>
    /\ cumulative_sizes = << >>
    /\ total_samples = 0
    /\ all_labels = {}
    /\ class_to_idx = << >>
    /\ pos = 0
    /\ succeeded = << >>
    /\ NoLookup
    /\ checkpoint \in Checkpoints
    /\ u_pc = "main"
    /\ u_err = "none"

dataset == <<bucket, pc, index, lookup>>

\* HUGGINGFACE_TOKEN is set and login succeeds
MainLogin ==
    /\ u_pc = "main"
    /\ u_pc' = "load"
    /\ UNCHANGED <<dataset, checkpoint, u_err>>

\* HUGGINGFACE_TOKEN is not set, or login raises
MainLoginFails ==
    /\ u_pc = "main"
    /\ u_pc' = "failed"
    /\ u_err' = "login"
    /\ UNCHANGED <<dataset, checkpoint>>

\* the if / elif chain that picks the state dict, and load_state_dict
\* (strict): with one of the three keys the state dict under it is loaded,
\* else the checkpoint itself, which then must hold parameter names only
StateDictLoads(c) ==
    /\ c.is_dict
    /\ c.fits
    /\ (c.keys \cap WeightKeys = {}) => c.keys = {ParamKey}

\* "Create a standardized checkpoint structure if missing fields"
Standardize(c) ==
    IF ~c.is_dict
    THEN [is_dict |-> TRUE, keys |-> {"model_state_dict", "epoch", "best_acc"},
          fits |-> c.fits]
    ELSE IF "epoch" \notin c.keys
    THEN [c EXCEPT !.keys = c.keys \cup {"epoch"}]
    ELSE IF "best_acc" \notin c.keys
    THEN [c EXCEPT !.keys = c.keys \cup {"best_acc"}]
    ELSE c

\* load_model_checkpoint returns the model and the checkpoint
LoadModelCheckpoint ==
    /\ u_pc = "load"
    /\ StateDictLoads(checkpoint)
    /\ checkpoint' = Standardize(checkpoint)
    /\ u_pc' = "loaded"
    /\ UNCHANGED <<dataset, u_err>>

\* load_model_checkpoint raises: torch.load fails, or the state dict does
\* not fit the model
LoadModelCheckpointFails ==
    /\ u_pc = "load"
    /\ u_pc' = "failed"
    /\ u_err' = "load"
    /\ UNCHANGED <<dataset, checkpoint>>

\* HF_REPO_ID is not set
MainNoRepo ==
    /\ u_pc = "loaded"
    /\ u_pc' = "failed"
    /\ u_err' = "repo_id"
    /\ UNCHANGED <<dataset, checkpoint>>

\* upload_to_huggingface builds config and the model card, reading
\* checkpoint['best_acc'] and checkpoint['epoch']
BuildConfig ==
    /\ u_pc = "loaded"
    /\ IF {"best_acc", "epoch"} \subseteq checkpoint.keys
       THEN u_pc' = "config" /\ UNCHANGED u_err
       ELSE u_pc' = "failed" /\ u_err' = "KeyError"
    /\ UNCHANGED <<dataset, checkpoint>>

\* torch.save and both api.upload_file calls succeed
UploadFiles ==
    /\ u_pc = "config"
    /\ u_pc' = "done"
    /\ UNCHANGED <<dataset, checkpoint, u_err>>

\* torch.save or an api.upload_file call raises
UploadFilesFail ==
    /\ u_pc = "config"
    /\ u_pc' = "failed"
    /\ u_err' = "upload"
    /\ UNCHANGED <<dataset, checkpoint>>

NextUpload ==
    \/ MainLogin
    \/ MainLoginFails
    \/ LoadModelCheckpoint
    \/ LoadModelCheckpointFails
    \/ MainNoRepo
    \/ BuildConfig
    \/ UploadFiles
    \/ UploadFilesFail

SpecUpload == InitUpload /\ [][NextUpload]_vars

(* ------------------------------ properties ---------------------------- *)
\* construction succeeded: the dataset exists and serves lookups
Constructed == pc \in {"ready", "verify", "get", "read", "returned", "raised"}

\* a lookup is under way or has ended
InLookup == pc \in {"verify", "get", "read", "returned", "raised"}

\* the number of records of the first batch of the shard under key k
FirstBatchRows(k) == Len(bucket[k].batches[1])

RECURSIVE SumRows(_)
SumRows(keys) ==
    IF keys = << >> THEN 0
    ELSE FirstBatchRows(keys[1]) + SumRows(Tail(keys))

\* C1: every storage call of a lookup of k names the key of a shard that
\* discovery read, namely the shard whose first-batch row count made the
\* cumulative interval that holds k.
C1_FetchesDiscoveredShard ==
    (InLookup /\ last_key # 0) =>
        \E i \in 1..Len(succeeded) :
            /\ last_key = succeeded[i]
            /\ cumulative_sizes[i] <= idx
            /\ idx < cumulative_sizes[i + 1]

\* C2 (state part): a lookup of k holds the one pair (i, local_offset) with
\* cumulative[i] <= k < cumulative[i+1] and local_offset = k - cumulative[i],
\* i being the first shard whose upper bound exceeds k.
C2_Resolution ==
    InLookup =>
        LET i == file_idx + 1
            n == Len(cumulative_sizes) - 1
        IN  /\ i \in 1..n
            /\ cumulative_sizes[i] <= idx
            /\ idx < cumulative_sizes[i + 1]
            /\ local_idx = idx - cumulative_sizes[i]
            /\ \A j \in 1..n : idx < cumulative_sizes[j + 1] => i <= j
            /\ \A j \in 1..n :
                  (cumulative_sizes[j] <= idx /\ idx < cumulative_sizes[j + 1])
                      => j = i

\* C2 (step part): no step of a constructed dataset changes the catalog, the
\* cumulative table or the vocabulary.
C2_IndexImmutable ==
    [][Constructed =>
          UNCHANGED <<arrow_files, cumulative_sizes, class_to_idx>>]_vars

\* C2: every in-range index resolves to exactly one (shard, offset) pair, the
\* first shard whose cumulative upper bound exceeds it, and the resolution is
\* the same on every call because lookups never change what it is computed
\* from.
C2_ResolutionStable == []C2_Resolution /\ C2_IndexImmutable

\* C2 witness: index 3 of two shards of 2 records resolves to shard 1 offset 1
C2_Witness ==
    /\ pc = "returned"
    /\ cumulative_sizes = <<0, 2, 4>>
    /\ idx = 3 /\ file_idx = 1 /\ local_idx = 1

\* C3: a lookup in which every get_object call fails (and every existence
\* probe answers) makes exactly max_retries get_object attempts before the
\* error reaches the caller.
C3_ExactlyMaxRetriesGets ==
    (pc = "raised" /\ head_fails = 0 /\ get_oks = 0) => get_calls = max_retries

\* C4: a malformed batch or an undecodable image surfaces at once: the lookup
\* has raised, without a sleep and without another attempt.
C4_DecodeErrorNotRetried ==
    (InLookup /\ last_err \in {"structure", "image"}) =>
        (pc = "raised" /\ attempt = 0 /\ slept = 0)

\* C5: the label a lookup returns is the dense class index of the located
\* record's raw label, class_to_idx[raw_label].
C5_LabelIsClassIndex ==
    pc = "returned" =>
        LET raw == ReadRecord(bucket[ShardKey], local_idx).label
        IN  /\ raw \in DOMAIN class_to_idx
            /\ ret_label = class_to_idx[raw]

\* C6: after a successful construction the cumulative table has one entry
\* more than the catalog arrow_files.
C6_TableLength ==
    Constructed => Len(cumulative_sizes) = Len(arrow_files) + 1

\* C7: in a lookup whose probes answer and whose get_object calls fail, the
\* time slept between get_object attempt n and attempt n+1 is retry_delay * n
\* (n counted over all get_object attempts of the lookup), and nothing is
\* slept after the final attempt.
C7_LinearDelays ==
    (InLookup /\ head_fails = 0 /\ get_oks = 0) =>
        /\ get_calls >= 2 => gap = retry_delay * (get_calls - 1)
        /\ pc = "raised" => slept = 0

\* the records in the first n batches of a stream
RECURSIVE SumRows_Batches(_, _)
SumRows_Batches(batches, n) ==
    IF n = 0 THEN 0
    ELSE Len(batches[n]) + SumRows_Batches(batches, n - 1)

\* the fetched body holds the record at offset l, with both columns and an
\* image that decodes
WellFormedAt(o, l) ==
    /\ o.opens
    /\ \E b \in 1..Len(o.batches) :
          LET before == SumRows_Batches(o.batches, b - 1)
          IN  before <= l /\ l < before + Len(o.batches[b])
    /\ o.has_image /\ o.has_label /\ o.image_ok

\* C8: while the probes answer, fewer than max_retries get_object calls have
\* failed and the shard content is well-formed, no error has left the fetch
\* loop (the lookup is in its first attempt and has not raised), and once a
\* get_object call has answered the lookup reads and returns the sample.
C8_RecoversWithinRetries ==
    (/\ InLookup
     /\ head_fails = 0
     /\ get_calls - get_oks < max_retries
     /\ WellFormedAt(bucket[ShardKey], local_idx)) =>
        /\ pc # "raised"
        /\ attempt = 0
        /\ get_oks > 0 => pc \in {"read", "returned"}
        /\ pc = "returned" => last_err \in {"none", "client"}

\* C8 witness: get_object failed twice, answered the third time, and the
\* sample was returned
C8_Witness ==
    /\ pc = "returned"
    /\ head_fails = 0
    /\ get_calls = 3 /\ get_oks = 1
    /\ WellFormedAt(bucket[ShardKey], local_idx)

\* C9: after a successful construction the cumulative table starts at 0, is
\* non-decreasing, and its last entry is len(dataset) and the sum of the
\* first-batch row counts of the shards discovery read (a skipped shard adds
\* nothing).
C9_CumulativeTable ==
    Constructed =>
        /\ cumulative_sizes[1] = 0
        /\ \A i \in 1..(Len(cumulative_sizes) - 1) :
              cumulative_sizes[i] <= cumulative_sizes[i + 1]
        /\ DatasetLen = SumRows(succeeded)
        /\ \A i \in 1..Len(succeeded) :
              cumulative_sizes[i + 1] = SumRows(SubSeq(succeeded, 1, i))

\* C9 witness: two shards read, of 1 and 2 records
C9_Witness ==
    /\ pc = "ready"
    /\ Len(succeeded) = 2
    /\ cumulative_sizes = <<0, 1, 3>>

\* C10: construction fails after the loop exactly when no label was seen or
\* no shard was read; a shard's own failure never fails construction, and
\* with a shard read and a label seen construction succeeds.
C10_ConstructionOutcome ==
    /\ (pc = "failed" /\ last_err # "listing") =>
          /\ pos > Len(arrow_files)
          /\ (all_labels = {} \/ succeeded = << >>)
    /\ Constructed => (all_labels # {} /\ succeeded # << >>)
    /\ (pc # "list" /\ pc # "discover" /\ last_err # "listing"
        /\ all_labels # {} /\ succeeded # << >>) => Constructed

\* C10 witness: construction succeeded although a shard was skipped
C10_Witness ==
    /\ pc = "ready"
    /\ Len(arrow_files) = 2
    /\ Len(succeeded) = 1

\* the labels in the first batches of the shards discovery read (those of a
\* shard without a label column are not observed)
ObservedLabels ==
    UNION {IF bucket[succeeded[i]].has_label
           THEN {bucket[succeeded[i]].batches[1][r] :
                    r \in 1..Len(bucket[succeeded[i]].batches[1])}
           ELSE {} : i \in 1..Len(succeeded)}

\* C11: after a successful construction the vocabulary's keys are the labels
\* observed in the first batches of the shards read, its values are exactly
\* 0..C-1 without duplicates, and a smaller raw label has a smaller index.
C11_VocabularyDenseSorted ==
    Constructed =>
        LET C == Cardinality(DOMAIN class_to_idx)
        IN  /\ DOMAIN class_to_idx = ObservedLabels
            /\ {class_to_idx[l] : l \in DOMAIN class_to_idx} = 0..(C - 1)
            /\ \A a, b \in DOMAIN class_to_idx :
                  /\ a # b => class_to_idx[a] # class_to_idx[b]
                  /\ a < b => class_to_idx[a] < class_to_idx[b]

\* C11 witness: the larger label was seen first, both got their index in
\* ascending order of the raw value
C11_Witness ==
    /\ pc = "ready"
    /\ Len(succeeded) >= 1
    /\ bucket[succeeded[1]].batches[1][1] = MaxLabel
    /\ DOMAIN class_to_idx = RawLabels
    /\ class_to_idx[MinLabel] = 0
    /\ class_to_idx[MaxLabel] = 1

\* a lookup is under way
InProgress == pc \in {"verify", "get", "read"}

\* C12 (state part): a lookup makes at most max_retries head_object calls and
\* at most max_retries * max_retries get_object calls, both loops stay within
\* their range, and a lookup under way always has a next step.
C12_CallsBounded ==
    InLookup =>
        /\ head_calls <= max_retries
        /\ get_calls <= max_retries * max_retries
        /\ attempt \in 0..(max_retries - 1)
        /\ get_attempt \in 0..(max_retries - 1)
        /\ get_calls <= max_retries * (head_calls - head_fails)
        /\ InProgress =>
              ENABLED (VerifyOk \/ VerifyFails \/ GetObjectOk
                         \/ GetObjectFails \/ ReadSample)

\* C12 (step part): every step of a lookup under way is a storage call or
\* the reading of a fetched body, which ends the attempt; a failed probe uses
\* up one outer attempt (or raises on the last) and makes no get_object call.
C12_StepsProgress ==
    [][InProgress =>
          /\ \/ head_calls' + get_calls' = head_calls + get_calls + 1
             \/ /\ pc = "read"
                /\ pc' \in {"verify", "returned", "raised"}
                /\ head_calls' + get_calls' = head_calls + get_calls
          /\ head_fails' # head_fails =>
                /\ get_calls' = get_calls
                /\ \/ (attempt' = attempt + 1 /\ pc' = "verify")
                   \/ (attempt = max_retries - 1 /\ pc' = "raised")]_vars

\* C12: every lookup ends, returning or raising, after at most max_retries
\* existence probes and max_retries * max_retries get_object calls, whatever
\* the storage calls do; a failed probe costs one outer attempt and no
\* get_object call.
C12_LookupTerminates == []C12_CallsBounded /\ C12_StepsProgress

\* C12 witness: a lookup that raised after max_retries probes and
\* max_retries * max_retries get_object calls
C12_Witness ==
    /\ pc = "raised"
    /\ head_calls = max_retries
    /\ head_fails = 0
    /\ get_calls = max_retries * max_retries

\* C13: the checkpoint load_model_checkpoint returns holds both metadata
\* keys, 'epoch' and 'best_acc', so upload_to_huggingface never fails on a
\* missing key.
C13_MetadataKeysPresent ==
    /\ u_pc \in {"loaded", "config", "done"} =>
          {"epoch", "best_acc"} \subseteq checkpoint.keys
    /\ u_err # "KeyError"

=============================================================================
